---- MODULE Spec2Model ----
(***************************************************************************)
(* Model of lserver: the sparse line-offset cache (cache.go) and the TCP   *)
(* connection server with its shutdown path (server, main).                *)
(*                                                                         *)
(* Five specifications share the variables:                                *)
(*   SpecCache  - newLineOffsetCache followed by Lookup calls, over every  *)
(*                bounded file, every cache size and every random choice;  *)
(*   SpecFind   - findLineInfo applied to arbitrary sorted anchor slices;  *)
(*   SpecServer - processRequests, handleConnection, shutdown and the      *)
(*                signal goroutine of main, interleaved step by step;      *)
(*   SpecLookups - Lookup calls of several goroutines, each with its own   *)
(*                file handle, interleaved read by read;                   *)
(*   SpecSlots  - getUnusedSlotCount applied to line counts and cache      *)
(*                sizes beyond those of the files SpecCache can hold.      *)
(***************************************************************************)
EXTENDS Integers, Sequences, FiniteSets, TLC

VARIABLES
    file,        \* contents of the target file, a sequence of bytes
    cacheSize,   \* the cacheSize argument of newLineOffsetCache
    loc,         \* the lineOffsetCache: status, cache ([]lineInfo), totLines
    lookupRes,   \* the last Lookup call: its argument and what it returned
    findIn,      \* SpecFind: arguments of findLineInfo (linenum, li)
    findOut,     \* SpecFind: result of findLineInfo (nil or a lineInfo)
    listener,    \* server.listener: "nil", "open" or "closed"
    closeCalls,  \* number of Close calls made on the listener
    isShutdown,  \* server.isShutdown
    mu,          \* server.mu: the set of goroutines holding it
    pcMain,      \* where main / processRequests stands
    mainErr,     \* the error processRequests returns
    pc,          \* where each handler and the signal goroutine stands
    lastCmd,     \* per connection: the command line read last, if any
    wrote,       \* per connection: the replies written for that command
    outcome,     \* per goroutine: how its shutdown() call went
    lk,          \* SpecLookups: per goroutine, the Lookup call it is in
    slots        \* SpecSlots: arguments and result of getUnusedSlotCount

cacheVars == <<file, cacheSize, loc, lookupRes>>
findVars == <<findIn, findOut>>
lookupVars == <<lk>>
slotVars == <<slots>>
serverVars == <<listener, closeCalls, isShutdown, mu, pcMain, mainErr, pc,
                lastCmd, wrote, outcome>>
vars == <<file, cacheSize, loc, lookupRes, findIn, findOut, listener,
          closeCalls, isShutdown, mu, pcMain, mainErr, pc, lastCmd, wrote,
          outcome, lk, slots>>

----------------------------------------------------------------------------
(* Bounds *)

MaxFileLen == 6      \* longest file, in bytes
MaxCap == 5          \* largest cacheSize tried
IntBits == 6         \* width of the model's int64
ChunkSize == 2       \* size of getLineCount's read buffer
MaxAnchor == 5       \* SpecFind: largest line number in an anchor slice
NumConns == 2        \* SpecServer: connections a run accepts at most
NumLookups == 2      \* SpecLookups: goroutines calling Lookup at once
MaxLineCnt == 40     \* SpecSlots: largest line count
MaxSlots == 12       \* SpecSlots: largest cache size

----------------------------------------------------------------------------
(* Values *)

Nil == "nil"
\* a nil *lineInfo
NilInfo == [isNil |-> TRUE]
NL == 10
Bytes == {NL, 97, 98}

MinInt == 0 - 2^(IntBits - 1)
MaxInt == 2^(IntBits - 1) - 1
\* int64 arithmetic wraps around
Wrap(x) == ((x - MinInt) % 2^IntBits) + MinInt

Files == UNION {[1..n -> Bytes] : n \in 0..MaxFileLen}

Min(a, b) == IF a < b THEN a ELSE b

----------------------------------------------------------------------------
(* cache.go *)

\* getLineCount: read the file chunk by chunk, adding the newlines of each
\* chunk, until a read returns EOF.
RECURSIVE getLineCountFrom(_, _, _)
getLineCountFrom(f, pos, count) ==
    LET c == Min(ChunkSize, Len(f) - pos)
        n == Cardinality({i \in (pos + 1)..(pos + c) : f[i] = NL})
    IN  IF c = 0 THEN count
        ELSE getLineCountFrom(f, pos + c, count + n)

\* Mutant: text after the last newline counts as a line.
getLineCount_CountsTail(f) ==
    getLineCountFrom(f, 0, 0)
    + (IF Len(f) > 0 /\ f[Len(f)] # NL THEN 1 ELSE 0)

getLineCount(f) == getLineCountFrom(f, 0, 0)

\* Mutant: no slot is ever reported unused, so no extra anchor is added.
getUnusedSlotCount_None(lineCnt, size) == 0

\* Mutant: the expected size is not rounded up.
getUnusedSlotCount_NoRoundUp(lineCnt, size) ==
    LET expectedCacheSize ==
            IF lineCnt > size
            THEN IF lineCnt % size = 0
                 THEN size
                 ELSE lineCnt \div ((lineCnt \div size) + 1)
            ELSE size
    IN  size - expectedCacheSize

\* getUnusedSlotCount: slots the 1/N spacing would leave empty.
getUnusedSlotCount(lineCnt, size) ==
    LET expectedCacheSize ==
            IF lineCnt > size
            THEN IF lineCnt % size = 0
                 THEN size
                 ELSE (lineCnt \div ((lineCnt \div size) + 1))
                      + (IF lineCnt % ((lineCnt \div size) + 1) # 0
                         THEN 1 ELSE 0)
            ELSE size
    IN  size - expectedCacheSize

\* The range loop of processLines over rand.Perm: collect the values that
\* are not multiples of skipFactor until freeSlots of them are found.
RECURSIVE pickExtras(_, _, _, _, _, _)
pickExtras(randSlots, n, i, skipFactor, freeSlots, extras) ==
    IF i >= n THEN extras
    ELSE IF randSlots[i] % skipFactor = 0
         THEN pickExtras(randSlots, n, i + 1, skipFactor, freeSlots, extras)
         ELSE IF Len(extras) + 1 = freeSlots
              THEN Append(extras, randSlots[i])
              ELSE pickExtras(randSlots, n, i + 1, skipFactor, freeSlots,
                              Append(extras, randSlots[i]))

\* Every value the sorted extras slice can take, one per outcome of rand.Perm.
ExtrasChoices(liLen, numLines, skipFactor) ==
    LET freeSlots == getUnusedSlotCount(numLines, liLen)
    IN  IF freeSlots > 0
        THEN { SortSeq(pickExtras(p, liLen, 0, skipFactor, freeSlots, <<>>),
                       LAMBDA a, b : a < b)
               : p \in Permutations(0..(liLen - 1)) }
        ELSE { <<>> }

\* Mutant: the start of the next line is saved as the offset of the newline
\* itself instead of the byte after it.
fillStep_NewlineOffset(f, skipFactor, s) ==
    IF f[s.offset + 1] = NL
    THEN LET useExtra == Len(s.extras) > 0 /\ Head(s.extras) = s.line
             add == (s.line % skipFactor = 0) \/ useExtra
         IN  [saveOff |-> s.offset,
              offset  |-> s.offset + 1,
              line    |-> s.line + 1,
              extras  |-> IF useExtra THEN Tail(s.extras) ELSE s.extras,
              li      |-> IF add
                          THEN Append(s.li, [lineno |-> s.line,
                                             offset |-> s.saveOff])
                          ELSE s.li]
    ELSE [s EXCEPT !.offset = @ + 1]

\* Mutant: the uniform anchors are taken by the 1-based line number.
fillStep_OneBased(f, skipFactor, s) ==
    IF f[s.offset + 1] = NL
    THEN LET useExtra == Len(s.extras) > 0 /\ Head(s.extras) = s.line
             add == ((s.line + 1) % skipFactor = 0) \/ useExtra
         IN  [saveOff |-> s.offset + 1,
              offset  |-> s.offset + 1,
              line    |-> s.line + 1,
              extras  |-> IF useExtra THEN Tail(s.extras) ELSE s.extras,
              li      |-> IF add
                          THEN Append(s.li, [lineno |-> s.line,
                                             offset |-> s.saveOff])
                          ELSE s.li]
    ELSE [s EXCEPT !.offset = @ + 1]

\* One byte of the population loop of processLines: at a newline the line
\* just ended is cached when it is a multiple of skipFactor or the next
\* extra; s holds the loop variables, s.li is li[:nextSlot].
fillStep(f, skipFactor, s) ==
    IF f[s.offset + 1] = NL
    THEN LET useExtra == Len(s.extras) > 0 /\ Head(s.extras) = s.line
             add == (s.line % skipFactor = 0) \/ useExtra
         IN  [saveOff |-> s.offset + 1,
              offset  |-> s.offset + 1,
              line    |-> s.line + 1,
              extras  |-> IF useExtra THEN Tail(s.extras) ELSE s.extras,
              li      |-> IF add
                          THEN Append(s.li, [lineno |-> s.line,
                                             offset |-> s.saveOff])
                          ELSE s.li]
    ELSE [s EXCEPT !.offset = @ + 1]

\* The population loop: until numLines lines are read or the file ends.
\* Writing past len(li) is an index-out-of-range panic.
RECURSIVE fillLoop(_, _, _, _, _)
fillLoop(f, liLen, numLines, skipFactor, s) ==
    IF s.line >= numLines \/ s.offset >= Len(f)
    THEN [status |-> "ok", cache |-> s.li]
    ELSE LET t == fillStep(f, skipFactor, s)
         IN  IF Len(t.li) > liLen
             THEN [status |-> "panic", cache |-> s.li]
             ELSE fillLoop(f, liLen, numLines, skipFactor, t)

processLines(f, liLen, numLines, skipFactor, extras) ==
    fillLoop(f, liLen, numLines, skipFactor,
             [saveOff |-> 0, offset |-> 0, line |-> 0,
              extras |-> extras, li |-> <<>>])

\* buildCache: every result it can produce.  make() with a negative length
\* and the division by a zero cacheLen both panic.
buildCache(f, lineCnt, cacheLen) ==
    IF lineCnt < cacheLen
    THEN { processLines(f, lineCnt, lineCnt, 1, e)
           : e \in ExtrasChoices(lineCnt, lineCnt, 1) }
    ELSE IF cacheLen <= 0
         THEN { [status |-> "panic", cache |-> <<>>] }
         ELSE LET skipFactor == (lineCnt \div cacheLen)
                                + (IF lineCnt % cacheLen # 0 THEN 1 ELSE 0)
              IN  { processLines(f, cacheLen, lineCnt, skipFactor, e)
                    : e \in ExtrasChoices(cacheLen, lineCnt, skipFactor) }

\* Mutant: the middle anchor is returned when the target is at or below it.
RECURSIVE findLineInfo_MidAtOrAbove(_, _)
findLineInfo_MidAtOrAbove(linenum, s) ==
    IF Len(s) = 0 THEN NilInfo
    ELSE IF Len(s) = 1
         THEN IF s[1].lineno < linenum THEN s[1] ELSE NilInfo
         ELSE LET mid == Len(s) \div 2
                  mv == s[mid + 1].lineno
              IN  IF linenum <= mv THEN s[mid + 1]
                  ELSE findLineInfo_MidAtOrAbove(linenum,
                                                 SubSeq(s, mid + 1, Len(s)))

\* findLineInfo: the unrolled binary search over the slice s.
RECURSIVE findLineInfo(_, _)
findLineInfo(linenum, s) ==
    IF Len(s) = 0 THEN NilInfo
    ELSE IF Len(s) = 1
         THEN IF s[1].lineno < linenum THEN s[1] ELSE NilInfo
         ELSE LET mid == Len(s) \div 2
                  mv == s[mid + 1].lineno
              IN  IF linenum = mv THEN s[mid + 1]
                  ELSE IF linenum < mv
                       THEN findLineInfo(linenum, SubSeq(s, 1, mid))
                       ELSE findLineInfo(linenum, SubSeq(s, mid + 1, Len(s)))

\* bufio.Reader.ReadBytes('\n') at byte position pos: the bytes up to and
\* including the next newline, or io.EOF when there is none.
RECURSIVE ReadBytes(_, _, _)
ReadBytes(f, pos, acc) ==
    IF pos >= Len(f) THEN [b |-> acc, err |-> "EOF", pos |-> pos]
    ELSE IF f[pos + 1] = NL
         THEN [b |-> Append(acc, NL), err |-> Nil, pos |-> pos + 1]
         ELSE ReadBytes(f, pos + 1, Append(acc, f[pos + 1]))

\* The read loop of Lookup: for ndx := begin; ndx <= lineno; ndx++.
RECURSIVE readLoop(_, _, _, _, _)
readLoop(f, pos, ndx, lineno, res) ==
    IF ndx > lineno THEN [str |-> res, err |-> Nil]
    ELSE LET r == ReadBytes(f, pos, <<>>)
         IN  IF r.err # Nil THEN [str |-> <<>>, err |-> r.err]
             ELSE readLoop(f, r.pos, ndx + 1, lineno,
                           IF ndx = lineno THEN r.b ELSE res)

\* Mutant: the 1-based argument is used as a 0-based line number.
Lookup_NoAdjust(c, f, arg) ==
    LET lineno == arg
        li == findLineInfo(lineno, c.cache)
        begin == IF li = NilInfo THEN 0 ELSE li.lineno
        seekTo == IF li = NilInfo THEN 0 ELSE li.offset
        r == readLoop(f, seekTo, begin, lineno, <<>>)
    IN  IF lineno < 0 \/ lineno >= c.totLines
        THEN [str |-> <<>>, err |-> "invalid", begin |-> -1]
        ELSE IF li # NilInfo /\ li.lineno > lineno
             THEN [str |-> <<>>, err |-> "unexpected", begin |-> -1]
             ELSE [str |-> r.str, err |-> r.err, begin |-> begin]

\* Mutant: the range check forgets the lower bound.
Lookup_NoLowerBound(c, f, arg) ==
    LET lineno == Wrap(arg - 1)
        li == findLineInfo(lineno, c.cache)
        begin == IF li = NilInfo THEN 0 ELSE li.lineno
        seekTo == IF li = NilInfo THEN 0 ELSE li.offset
        r == readLoop(f, seekTo, begin, lineno, <<>>)
    IN  IF lineno >= c.totLines
        THEN [str |-> <<>>, err |-> "invalid", begin |-> -1]
        ELSE IF li # NilInfo /\ li.lineno > lineno
             THEN [str |-> <<>>, err |-> "unexpected", begin |-> -1]
             ELSE [str |-> r.str, err |-> r.err, begin |-> begin]

\* Mutant: the anchor found is ignored and every scan starts at line 0.
Lookup_ScanFromStart(c, f, arg) ==
    LET lineno == Wrap(arg - 1)
        li == findLineInfo(lineno, c.cache)
        begin == 0
        seekTo == 0
        r == readLoop(f, seekTo, begin, lineno, <<>>)
    IN  IF lineno < 0 \/ lineno >= c.totLines
        THEN [str |-> <<>>, err |-> "invalid", begin |-> -1]
        ELSE IF li # NilInfo /\ li.lineno > lineno
             THEN [str |-> <<>>, err |-> "unexpected", begin |-> -1]
             ELSE [str |-> r.str, err |-> r.err, begin |-> begin]

\* lineOffsetCache.Lookup on the cache c over the file f.  begin is the line
\* the forward scan started at (-1 when no scan was made).
Lookup(c, f, arg) ==
    LET lineno == Wrap(arg - 1)
        li == findLineInfo(lineno, c.cache)
        begin == IF li = NilInfo THEN 0 ELSE li.lineno
        seekTo == IF li = NilInfo THEN 0 ELSE li.offset
        r == readLoop(f, seekTo, begin, lineno, <<>>)
    IN  IF lineno < 0 \/ lineno >= c.totLines
        THEN [str |-> <<>>, err |-> "invalid", begin |-> -1]
        ELSE IF li # NilInfo /\ li.lineno > lineno
             THEN [str |-> <<>>, err |-> "unexpected", begin |-> -1]
             ELSE [str |-> r.str, err |-> r.err, begin |-> begin]

----------------------------------------------------------------------------
(* server: command lines *)

getCmd == <<"G", "E", "T">>
quitCmd == <<"Q", "U", "I", "T">>
shutdownCmd == <<"S", "H", "U", "T", "D", "O", "W", "N">>

\* strings.TrimSpace, for lines whose only white space is the blank
RECURSIVE TrimSpace(_)
TrimSpace(s) ==
    IF Len(s) = 0 THEN s
    ELSE IF Head(s) = " " THEN TrimSpace(Tail(s))
    ELSE IF s[Len(s)] = " " THEN TrimSpace(SubSeq(s, 1, Len(s) - 1))
    ELSE s

\* strings.Split(s, " "): a new part starts after every blank
RECURSIVE SplitFrom(_, _, _)
SplitFrom(s, i, cur) ==
    IF i > Len(s) THEN <<cur>>
    ELSE IF s[i] = " " THEN <<cur>> \o SplitFrom(s, i + 1, <<>>)
    ELSE SplitFrom(s, i + 1, Append(cur, s[i]))

Split(s) == SplitFrom(s, 1, <<>>)

Digits == <<"0", "1", "2", "3", "4", "5", "6", "7", "8", "9">>
IsDigit(ch) == \E d \in 1..10 : Digits[d] = ch
DigitVal(ch) == (CHOOSE d \in 1..10 : Digits[d] = ch) - 1

\* the digits of strconv.ParseInt: -1 for a syntax error, the value
\* otherwise, saturating above the largest magnitude an int64 holds
RECURSIVE ParseUint(_, _, _)
ParseUint(tok, i, acc) ==
    IF i > Len(tok) THEN acc
    ELSE IF ~IsDigit(tok[i]) THEN -1
    ELSE ParseUint(tok, i + 1,
                   Min(acc * 10 + DigitVal(tok[i]), 0 - MinInt + 1))

\* strconv.ParseInt(tok, 10, 64): 0 with a syntax error, the nearest bound
\* with a range error
ParseInt(tok) ==
    LET neg == Len(tok) > 0 /\ Head(tok) = "-"
        signed == Len(tok) > 0 /\ Head(tok) \in {"-", "+"}
        body == IF signed THEN Tail(tok) ELSE tok
        un == IF Len(body) = 0 THEN -1 ELSE ParseUint(body, 1, 0)
    IN  IF un = -1 THEN [val |-> 0, err |-> "syntax"]
        ELSE IF ~neg /\ un > MaxInt THEN [val |-> MaxInt, err |-> "range"]
        ELSE IF neg /\ un > 0 - MinInt THEN [val |-> MinInt, err |-> "range"]
        ELSE [val |-> IF neg THEN 0 - un ELSE un, err |-> Nil]

\* The GET branch of handleConnection: the replies it writes to the
\* connection, in order.
getReplies(c, f, tok) ==
    LET p == ParseInt(tok)
        first == IF p.err # Nil
                 THEN <<[kind |-> "invalid line number", val |-> 0,
                         text |-> tok]>>
                 ELSE <<>>
        r == Lookup(c, f, p.val)
    IN  IF r.err # Nil
        THEN Append(first, [kind |-> "lookup failed", val |-> p.val,
                            text |-> <<r.err>>])
        ELSE Append(first, [kind |-> "line", val |-> p.val, text |-> r.str])

\* Mutant: an unrecognised command ends the connection.
handleLine_CloseOnError(c, f, raw) ==
    LET line == TrimSpace(raw)
        parts == Split(line)
    IN  IF Len(parts) = 1 /\ parts[1] = quitCmd
        THEN [wrote |-> <<>>, next |-> "closed"]
        ELSE IF Len(parts) = 1 /\ parts[1] = shutdownCmd
        THEN [wrote |-> <<>>, next |-> "sd_check"]
        ELSE IF Len(parts) = 2 /\ parts[1] = getCmd
        THEN [wrote |-> getReplies(c, f, parts[2]), next |-> "scan"]
        ELSE [wrote |-> <<[kind |-> "invalid request", val |-> 0,
                           text |-> line]>>,
              next |-> "closed"]

\* Mutant: QUIT does not leave the loop.
handleLine_QuitContinues(c, f, raw) ==
    LET line == TrimSpace(raw)
        parts == Split(line)
    IN  IF Len(parts) = 1 /\ parts[1] = quitCmd
        THEN [wrote |-> <<>>, next |-> "scan"]
        ELSE IF Len(parts) = 1 /\ parts[1] = shutdownCmd
        THEN [wrote |-> <<>>, next |-> "sd_check"]
        ELSE IF Len(parts) = 2 /\ parts[1] = getCmd
        THEN [wrote |-> getReplies(c, f, parts[2]), next |-> "scan"]
        ELSE [wrote |-> <<[kind |-> "invalid request", val |-> 0,
                           text |-> line]>>,
              next |-> "scan"]

\* One iteration of the handler loop on the line read: what it writes and
\* where it goes next.
handleLine(c, f, raw) ==
    LET line == TrimSpace(raw)
        parts == Split(line)
    IN  IF Len(parts) = 1 /\ parts[1] = quitCmd
        THEN [wrote |-> <<>>, next |-> "closed"]
        ELSE IF Len(parts) = 1 /\ parts[1] = shutdownCmd
        THEN [wrote |-> <<>>, next |-> "sd_check"]
        ELSE IF Len(parts) = 2 /\ parts[1] = getCmd
        THEN [wrote |-> getReplies(c, f, parts[2]), next |-> "scan"]
        ELSE [wrote |-> <<[kind |-> "invalid request", val |-> 0,
                           text |-> line]>>,
              next |-> "scan"]

----------------------------------------------------------------------------
(* SpecCache: build the cache, then look lines up *)

LookupArgs == {MinInt, MaxInt} \cup (-1..(MaxFileLen + 1))

\* before newLineOffsetCache has run, before the first Lookup
NoCache == [status |-> "none", cache |-> <<>>, totLines |-> 0]
NoLookup == [called |-> FALSE, arg |-> 0, str |-> <<>>, err |-> Nil,
             begin |-> -1]
NoFind == [called |-> FALSE, linenum |-> 0, li |-> <<>>]

\* the goroutines that call Lookup, none of them in a call
Lookers == 1..NumLookups
NoCall == [pc |-> "idle", arg |-> 0, lineno |-> 0, begin |-> 0, seekTo |-> 0,
           ndx |-> 0, pos |-> -1, res |-> <<>>, err |-> Nil]
NoCalls == [g \in Lookers |-> NoCall]
\* getUnusedSlotCount not called
NoSlots == [called |-> FALSE, lineCnt |-> 0, cacheSize |-> 1, free |-> 0]

\* the goroutines: one handler per connection, and the signal goroutine of
\* main, which is goroutine 0
Conns == 1..NumConns
Procs == 0..NumConns
Sig == CHOOSE p \in Procs : p \notin Conns

\* newServer, and no goroutine running yet
NewServer ==
    /\ listener = "nil"
    /\ closeCalls = 0
    /\ isShutdown = FALSE
    /\ mu = {}
    /\ pcMain = "new"
    /\ mainErr = Nil
    /\ pc = [p \in Procs |-> IF p = Sig THEN "wait" ELSE "free"]
    /\ lastCmd = [c \in Conns |-> <<>>]
    /\ wrote = [c \in Conns |-> <<>>]
    /\ outcome = [p \in Procs |-> "none"]
    /\ lk = NoCalls

InitCache ==
    /\ file \in Files
    /\ cacheSize \in -1..MaxCap
    /\ loc = NoCache
    /\ lookupRes = NoLookup
    /\ findIn = NoFind
    /\ findOut = NilInfo
    /\ slots = NoSlots
    /\ NewServer

\* newLineOffsetCache(filename, cacheSize)
NewLineOffsetCache ==
    /\ loc = NoCache
    /\ LET cnt == getLineCount(file)
       IN  \E r \in buildCache(file, cnt, cacheSize) :
               loc' = [status |-> r.status, cache |-> r.cache, totLines |-> cnt]
    /\ UNCHANGED <<file, cacheSize, lookupRes, findVars, serverVars,
                   lookupVars, slotVars>>

\* loc.Lookup(n)
DoLookup(n) ==
    /\ loc.status = "ok"
    /\ LET r == Lookup(loc, file, n)
       IN  lookupRes' = [called |-> TRUE, arg |-> n, str |-> r.str,
                         err |-> r.err, begin |-> r.begin]
    /\ UNCHANGED <<file, cacheSize, loc, findVars, serverVars, lookupVars, slotVars>>

NextCache ==
    \/ NewLineOffsetCache
    \/ \E n \in LookupArgs : DoLookup(n)

SpecCache == InitCache /\ [][NextCache]_vars

----------------------------------------------------------------------------
(* SpecFind: findLineInfo on arbitrary sorted slices *)

\* the strictly increasing slice holding exactly the line numbers of S
RECURSIVE SliceOf(_)
SliceOf(S) ==
    IF S = {} THEN <<>>
    ELSE LET m == CHOOSE x \in S : \A y \in S : x >= y
         IN  Append(SliceOf(S \ {m}), [lineno |-> m, offset |-> 2 * m])

InitFind ==
    /\ findIn \in { [called |-> FALSE, linenum |-> t, li |-> SliceOf(S)]
                     : t \in -1..(MaxAnchor + 1), S \in SUBSET (0..MaxAnchor) }
    /\ findOut = NilInfo
    /\ file = <<>>
    /\ cacheSize = 1
    /\ loc = NoCache
    /\ lookupRes = NoLookup
    /\ slots = NoSlots
    /\ NewServer

FindLineInfo ==
    /\ ~findIn.called
    /\ findIn' = [findIn EXCEPT !.called = TRUE]
    /\ findOut' = findLineInfo(findIn.linenum, findIn.li)
    /\ UNCHANGED <<cacheVars, serverVars, lookupVars, slotVars>>

NextFind == FindLineInfo

SpecFind == InitFind /\ [][NextFind]_vars

----------------------------------------------------------------------------
(* SpecServer: main, processRequests, handleConnection, shutdown *)

\* the target file of the server runs: "a\n" and "bb\n"
ServerFile == <<97, NL, 98, 98, NL>>

\* the command lines the clients send
Lines ==
    { <<"Q", "U", "I", "T">>,
      <<"S", "H", "U", "T", "D", "O", "W", "N">>,
      <<"G", "E", "T", " ", "2", " ">>,
      <<"G", "E", "T", " ", "3">>,
      <<"G", "E", "T", " ", "x">>,
      <<"G", "E", "T", " ", "9", "9">>,
      <<"F", "O", "O">> }

\* main up to the call of processRequests: the cache is built, the server
\* created, the signal goroutine started
InitServer ==
    /\ file = ServerFile
    /\ cacheSize = 1
    /\ loc \in { [status |-> r.status, cache |-> r.cache,
                  totLines |-> getLineCount(ServerFile)]
                 : r \in buildCache(ServerFile, getLineCount(ServerFile), 1) }
    /\ lookupRes = NoLookup
    /\ findIn = NoFind
    /\ findOut = NilInfo
    /\ slots = NoSlots
    /\ NewServer

\* os.Exit ends every goroutine
Alive == pcMain # "exited"

\* net.Listener.Close
CloseListener ==
    /\ listener' = "closed"
    /\ closeCalls' = closeCalls + 1

\* processRequests: net.Listen succeeds
Listen ==
    /\ pcMain = "new"
    /\ listener' = "open"
    /\ pcMain' = "accept"
    /\ UNCHANGED <<closeCalls, isShutdown, mu, mainErr, pc, lastCmd, wrote,
                   outcome, cacheVars, findVars, lookupVars, slotVars>>

\* processRequests: net.Listen fails and the error is returned
ListenFail ==
    /\ pcMain = "new"
    /\ mainErr' = "listen"
    /\ pcMain' = "defer"
    /\ UNCHANGED <<listener, closeCalls, isShutdown, mu, pc, lastCmd, wrote,
                   outcome, cacheVars, findVars, lookupVars, slotVars>>

\* processRequests: Accept returns a connection, go s.handleConnection(conn)
Accept(c) ==
    /\ pcMain = "accept"
    /\ listener = "open"
    /\ pc[c] = "free"
    /\ pc' = [pc EXCEPT ![c] = "scan"]
    /\ UNCHANGED <<listener, closeCalls, isShutdown, mu, pcMain, mainErr,
                   lastCmd, wrote, outcome, cacheVars, findVars, lookupVars, slotVars>>

\* Mutant: the accept loop returns the Accept error whatever isShutdown says.
AcceptError_AlwaysReported ==
    /\ pcMain = "accept"
    /\ mainErr' = "accept"
    /\ pcMain' = "defer"
    /\ UNCHANGED <<listener, closeCalls, isShutdown, mu, pc, lastCmd, wrote,
                   outcome, cacheVars, findVars, lookupVars, slotVars>>

\* processRequests: Accept returns an error, because the listener is closed
\* or for a reason of its own; the error is returned unless isShutdown
AcceptError ==
    /\ pcMain = "accept"
    /\ mainErr' = IF ~isShutdown THEN "accept" ELSE Nil
    /\ pcMain' = "defer"
    /\ UNCHANGED <<listener, closeCalls, isShutdown, mu, pc, lastCmd, wrote,
                   outcome, cacheVars, findVars, lookupVars, slotVars>>

\* processRequests: the deferred Close of the listener
DeferClose ==
    /\ pcMain = "defer"
    /\ IF listener # "nil" THEN CloseListener
       ELSE UNCHANGED <<listener, closeCalls>>
    /\ pcMain' = "returned"
    /\ UNCHANGED <<isShutdown, mu, mainErr, pc, lastCmd, wrote, outcome,
                   cacheVars, findVars, lookupVars, slotVars>>

\* main: os.Exit(code) once processRequests has returned
Exit ==
    /\ pcMain = "returned"
    /\ pcMain' = "exited"
    /\ UNCHANGED <<listener, closeCalls, isShutdown, mu, mainErr, pc, lastCmd,
                   wrote, outcome, cacheVars, findVars, lookupVars, slotVars>>

\* main's goroutine: a signal arrives on ch, ls.server.shutdown() is called
Signal ==
    /\ Alive
    /\ pc[Sig] = "wait"
    /\ pc' = [pc EXCEPT ![Sig] = "sd_check"]
    /\ UNCHANGED <<listener, closeCalls, isShutdown, mu, pcMain, mainErr,
                   lastCmd, wrote, outcome, cacheVars, findVars, lookupVars, slotVars>>

\* Mutant: a line served by a forward scan is added to the cache.
ReadLine_CachesLine(c, raw) ==
    /\ Alive
    /\ pc[c] = "scan"
    /\ LET h == handleLine(loc, file, raw)
       IN  /\ lastCmd' = [lastCmd EXCEPT ![c] = <<raw>>]
           /\ wrote' = [wrote EXCEPT ![c] = h.wrote]
           /\ pc' = [pc EXCEPT ![c] = h.next]
           /\ loc' = IF /\ Len(h.wrote) = 1
                        /\ h.wrote[1].kind = "line"
                        /\ \A i \in 1..Len(loc.cache) :
                               loc.cache[i].lineno # h.wrote[1].val - 1
                     THEN [loc EXCEPT !.cache =
                              Append(@, [lineno |-> h.wrote[1].val - 1,
                                         offset |-> Len(file)
                                                    - Len(h.wrote[1].text)])]
                     ELSE loc
    /\ UNCHANGED <<listener, closeCalls, isShutdown, mu, pcMain, mainErr,
                   outcome, file, cacheSize, lookupRes, findVars, lookupVars, slotVars>>

\* handleConnection: scanner.Scan returns the line raw; one loop iteration
ReadLine(c, raw) ==
    /\ Alive
    /\ pc[c] = "scan"
    /\ LET h == handleLine(loc, file, raw)
       IN  /\ lastCmd' = [lastCmd EXCEPT ![c] = <<raw>>]
           /\ wrote' = [wrote EXCEPT ![c] = h.wrote]
           /\ pc' = [pc EXCEPT ![c] = h.next]
    /\ UNCHANGED <<listener, closeCalls, isShutdown, mu, pcMain, mainErr,
                   outcome, cacheVars, findVars, lookupVars, slotVars>>

\* handleConnection: scanner.Scan returns false (the client is gone or the
\* read failed); the loop ends and the deferred conn.Close runs
ReadEnd(c) ==
    /\ Alive
    /\ pc[c] = "scan"
    /\ pc' = [pc EXCEPT ![c] = "closed"]
    /\ UNCHANGED <<listener, closeCalls, isShutdown, mu, pcMain, mainErr,
                   lastCmd, wrote, outcome, cacheVars, findVars, lookupVars, slotVars>>

\* handleConnection: break after s.shutdown() returned, conn.Close
HandlerClose(c) ==
    /\ Alive
    /\ pc[c] = "sd_ret"
    /\ pc' = [pc EXCEPT ![c] = "closed"]
    /\ UNCHANGED <<listener, closeCalls, isShutdown, mu, pcMain, mainErr,
                   lastCmd, wrote, outcome, cacheVars, findVars, lookupVars, slotVars>>

\* where a goroutine continues when its shutdown() call returns
Ret(p) == IF p = Sig THEN "done" ELSE "sd_ret"

\* shutdown: if s.isShutdown { return }, read without holding mu
SdCheck(p) ==
    /\ Alive
    /\ pc[p] = "sd_check"
    /\ IF isShutdown
       THEN /\ pc' = [pc EXCEPT ![p] = Ret(p)]
            /\ outcome' = [outcome EXCEPT ![p] = "noop"]
       ELSE /\ pc' = [pc EXCEPT ![p] = "sd_lock"]
            /\ UNCHANGED outcome
    /\ UNCHANGED <<listener, closeCalls, isShutdown, mu, pcMain, mainErr,
                   lastCmd, wrote, cacheVars, findVars, lookupVars, slotVars>>

\* Mutant: shutdown takes the lock and forgets to raise the flag.
SdLock_FlagNotSet(p) ==
    /\ Alive
    /\ pc[p] = "sd_lock"
    /\ mu = {}
    /\ mu' = {p}
    /\ pc' = [pc EXCEPT ![p] = "sd_close"]
    /\ UNCHANGED <<listener, closeCalls, isShutdown, pcMain, mainErr, lastCmd,
                   wrote, outcome, cacheVars, findVars, lookupVars, slotVars>>

\* shutdown: s.mu.Lock() once the mutex is free, then s.isShutdown = true
SdLock(p) ==
    /\ Alive
    /\ pc[p] = "sd_lock"
    /\ mu = {}
    /\ mu' = {p}
    /\ isShutdown' = TRUE
    /\ pc' = [pc EXCEPT ![p] = "sd_close"]
    /\ UNCHANGED <<listener, closeCalls, pcMain, mainErr, lastCmd, wrote,
                   outcome, cacheVars, findVars, lookupVars, slotVars>>

\* Mutant: shutdown also closes every connection that is being served.
SdClose_ClosesConns(p) ==
    /\ Alive
    /\ pc[p] = "sd_close"
    /\ IF listener # "nil" THEN CloseListener
       ELSE UNCHANGED <<listener, closeCalls>>
    /\ mu' = {}
    /\ pc' = [q \in Procs |-> IF q = p THEN Ret(p)
                               ELSE IF pc[q] = "scan" THEN "closed"
                               ELSE pc[q]]
    /\ outcome' = [outcome EXCEPT ![p] = "ran"]
    /\ UNCHANGED <<isShutdown, pcMain, mainErr, lastCmd, wrote, cacheVars,
                   findVars, lookupVars, slotVars>>

\* shutdown: if s.listener != nil { s.listener.Close() }, then
\* s.mu.Unlock() and return
SdClose(p) ==
    /\ Alive
    /\ pc[p] = "sd_close"
    /\ IF listener # "nil" THEN CloseListener
       ELSE UNCHANGED <<listener, closeCalls>>
    /\ mu' = {}
    /\ pc' = [pc EXCEPT ![p] = Ret(p)]
    /\ outcome' = [outcome EXCEPT ![p] = "ran"]
    /\ UNCHANGED <<isShutdown, pcMain, mainErr, lastCmd, wrote, cacheVars,
                   findVars, lookupVars, slotVars>>

NextServer ==
    \/ Listen
    \/ ListenFail
    \/ \E c \in Conns : Accept(c)
    \/ AcceptError
    \/ DeferClose
    \/ Exit
    \/ Signal
    \/ \E c \in Conns : \E raw \in Lines : ReadLine(c, raw)
    \/ \E c \in Conns : ReadEnd(c)
    \/ \E c \in Conns : HandlerClose(c)
    \/ \E p \in Procs : SdCheck(p)
    \/ \E p \in Procs : SdLock(p)
    \/ \E p \in Procs : SdClose(p)

SpecServer == InitServer /\ [][NextServer]_vars

----------------------------------------------------------------------------
(* SpecLookups: concurrent Lookup calls, one file handle per call *)

\* the target file of these runs: "a\n", "bb\n", "\n" and "ab\n"
LookupsFile == <<97, NL, 98, 98, NL, NL, 97, 98, NL>>
LookupsCaps == 1..3
LookupsArgs == 0..(getLineCount(LookupsFile) + 1)

InitLookups ==
    /\ file = LookupsFile
    /\ cacheSize \in LookupsCaps
    /\ loc \in { [status |-> r.status, cache |-> r.cache,
                  totLines |-> getLineCount(LookupsFile)]
                 : r \in UNION { buildCache(LookupsFile,
                                            getLineCount(LookupsFile), n)
                                 : n \in LookupsCaps } }
    /\ Len(loc.cache) = Min(cacheSize, loc.totLines)
    /\ lookupRes = NoLookup
    /\ findIn = NoFind
    /\ findOut = NilInfo
    /\ slots = NoSlots
    /\ NewServer

\* Lookup up to the opened file: lineno--, the range check, findLineInfo,
\* os.OpenFile (a handle of its own, at offset 0), begin and seekTo
LkCall(g, n) ==
    /\ lk[g].pc = "idle"
    /\ LET lineno == Wrap(n - 1)
           li == findLineInfo(lineno, loc.cache)
       IN  lk' = [lk EXCEPT ![g] =
               IF lineno < 0 \/ lineno >= loc.totLines
               THEN [NoCall EXCEPT !.pc = "done", !.arg = n,
                                   !.err = "invalid"]
               ELSE IF li # NilInfo /\ li.lineno > lineno
               THEN [NoCall EXCEPT !.pc = "done", !.arg = n,
                                   !.err = "unexpected"]
               ELSE [NoCall EXCEPT
                        !.pc = "seek", !.arg = n, !.lineno = lineno,
                        !.pos = 0,
                        !.begin = IF li = NilInfo THEN 0 ELSE li.lineno,
                        !.seekTo = IF li = NilInfo THEN 0 ELSE li.offset]]
    /\ UNCHANGED <<cacheVars, findVars, serverVars, slotVars>>

\* Mutant: the calls share one file handle, so a Seek moves the read
\* position of every call that has the file open.
LkSeek_SharedHandle(g) ==
    /\ lk[g].pc = "seek"
    /\ lk' = [h \in Lookers |->
                IF h = g
                THEN [lk[g] EXCEPT !.pc = "read", !.pos = lk[g].seekTo,
                                   !.ndx = lk[g].begin]
                ELSE IF lk[h].pos # -1
                     THEN [lk[h] EXCEPT !.pos = lk[g].seekTo]
                     ELSE lk[h]]
    /\ UNCHANGED <<cacheVars, findVars, serverVars, slotVars>>

\* Lookup: f.Seek(seekTo, 0) on the call's own handle, bufio.NewReader(f),
\* ndx := begin
LkSeek(g) ==
    /\ lk[g].pc = "seek"
    /\ lk' = [lk EXCEPT ![g] = [lk[g] EXCEPT !.pc = "read",
                                             !.pos = lk[g].seekTo,
                                             !.ndx = lk[g].begin]]
    /\ UNCHANGED <<cacheVars, findVars, serverVars, slotVars>>

\* Lookup: one turn of the read loop, or its end and the return of res
LkRead(g) ==
    /\ lk[g].pc = "read"
    /\ LET c == lk[g]
           r == ReadBytes(file, c.pos, <<>>)
       IN  lk' = [lk EXCEPT ![g] =
               IF c.ndx > c.lineno THEN [c EXCEPT !.pc = "done"]
               ELSE IF r.err # Nil
               THEN [c EXCEPT !.pc = "done", !.res = <<>>, !.err = r.err]
               ELSE [c EXCEPT !.pos = r.pos, !.ndx = c.ndx + 1,
                              !.res = IF c.ndx = c.lineno THEN r.b
                                      ELSE c.res]]
    /\ UNCHANGED <<cacheVars, findVars, serverVars, slotVars>>

\* Lookup has returned: the deferred f.Close, and the caller takes the
\* result
LkReturn(g) ==
    /\ lk[g].pc = "done"
    /\ lk' = [lk EXCEPT ![g] = NoCall]
    /\ UNCHANGED <<cacheVars, findVars, serverVars, slotVars>>

NextLookups ==
    \/ \E g \in Lookers, n \in LookupsArgs : LkCall(g, n)
    \/ \E g \in Lookers : LkSeek(g)
    \/ \E g \in Lookers : LkRead(g)
    \/ \E g \in Lookers : LkReturn(g)

SpecLookups == InitLookups /\ [][NextLookups]_vars

----------------------------------------------------------------------------
(* SpecSlots: getUnusedSlotCount over line counts and cache sizes *)

InitSlots ==
    /\ slots \in { [called |-> FALSE, lineCnt |-> l, cacheSize |-> c,
                     free |-> 0]
                    : l \in 0..MaxLineCnt, c \in 1..MaxSlots }
    /\ file = <<>>
    /\ cacheSize = 1
    /\ loc = NoCache
    /\ lookupRes = NoLookup
    /\ findIn = NoFind
    /\ findOut = NilInfo
    /\ NewServer

\* processLines: freeSlots := getUnusedSlotCount(numLines, len(li))
GetUnusedSlotCount ==
    /\ ~slots.called
    /\ slots' = [slots EXCEPT
                    !.called = TRUE,
                    !.free = getUnusedSlotCount(slots.lineCnt,
                                                slots.cacheSize)]
    /\ UNCHANGED <<cacheVars, findVars, serverVars, lookupVars>>

NextSlots == GetUnusedSlotCount

SpecSlots == InitSlots /\ [][NextSlots]_vars

----------------------------------------------------------------------------
(* What the file holds, read off its bytes *)

NLPos(f) == {i \in 1..Len(f) : f[i] = NL}
NumLines(f) == Cardinality(NLPos(f))
\* index of the k-th newline, k >= 1
KthNL(f, k) == CHOOSE i \in NLPos(f) : Cardinality({j \in NLPos(f) : j <= i}) = k
\* file offset of the first byte of 0-based line k
LineStart(f, k) == IF k = 0 THEN 0 ELSE KthNL(f, k)
\* the n-th record, 1-based, with its newline
Record(f, n) == SubSeq(f, LineStart(f, n - 1) + 1, KthNL(f, n))

Built == loc.status # "none"
SkipOf(lines, cap) == (lines \div cap) + (IF lines % cap # 0 THEN 1 ELSE 0)
\* the built cache holds an extra anchor, one the uniform spacing leaves out
HasExtra ==
    /\ loc.status = "ok"
    /\ cacheSize > 0
    /\ loc.totLines > cacheSize
    /\ \E i \in 1..Len(loc.cache) :
           loc.cache[i].lineno % SkipOf(loc.totLines, cacheSize) # 0

----------------------------------------------------------------------------
(* Claims *)

\* C1: on a cache built with capacity > 0, Lookup(n) for 1 <= n <= totalLines
\* returns without error exactly the n-th record of the file, newline
\* included, whichever extra anchors were chosen.
C1_LookupRoundTrip ==
    (/\ lookupRes.called
     /\ cacheSize > 0
     /\ lookupRes.arg >= 1
     /\ lookupRes.arg <= NumLines(file))
    => (lookupRes.err = Nil /\ lookupRes.str = Record(file, lookupRes.arg))

\* a lookup of a line that is not anchored, served by a cache with extras
C1_Witness ==
    /\ lookupRes.called
    /\ lookupRes.err = Nil
    /\ HasExtra
    /\ lookupRes.begin >= 1
    /\ lookupRes.begin < lookupRes.arg - 1
    /\ lookupRes.str = Record(file, lookupRes.arg)

\* C2: Lookup(n) returns an error and no text when n <= 0 or n > totalLines,
\* also on a file without any line.
C2_LookupOutOfRange ==
    (/\ lookupRes.called
     /\ (lookupRes.arg <= 0 \/ lookupRes.arg > NumLines(file)))
    => (lookupRes.err # Nil /\ lookupRes.str = <<>>)

\* Lookup(1) failing on a file that has bytes but no line
C2_Witness ==
    /\ lookupRes.called
    /\ NumLines(file) = 0
    /\ Len(file) > 0
    /\ lookupRes.arg = 1
    /\ lookupRes.err = "invalid"

\* C3: with capacity > 0 and totalLines > 0 construction succeeds and the
\* number of anchors is min(capacity, totalLines), for every random choice.
C3_AnchorCount ==
    (Built /\ cacheSize > 0 /\ NumLines(file) > 0)
    => (/\ loc.status = "ok"
        /\ Len(loc.cache) = Min(cacheSize, NumLines(file)))

\* a full cache that needed extras to be full
C3_Witness ==
    /\ HasExtra
    /\ Len(loc.cache) = cacheSize
    /\ NumLines(file) % cacheSize # 0

\* C4: the anchors are strictly increasing by line number and each offset
\* is the file offset of the first byte of its line.
C4_AnchorsSortedExact ==
    loc.status = "ok"
    => (/\ \A i \in 1..(Len(loc.cache) - 1) :
               loc.cache[i].lineno < loc.cache[i + 1].lineno
        /\ \A i \in 1..Len(loc.cache) :
               /\ loc.cache[i].lineno \in 0..(NumLines(file) - 1)
               /\ loc.cache[i].offset = LineStart(file, loc.cache[i].lineno))

\* a cache with an extra anchor between two uniform ones, lines of
\* different lengths
C4_Witness ==
    /\ HasExtra
    /\ Len(loc.cache) >= 3
    /\ \E i \in 2..Len(loc.cache) :
           loc.cache[i].offset - loc.cache[i - 1].offset >= 2

\* the anchor findLineInfo is documented to return
ExpectedAnchor(linenum, li) ==
    LET le == {i \in 1..Len(li) : li[i].lineno <= linenum}
    IN  IF le = {} THEN NilInfo
        ELSE li[CHOOSE i \in le : \A j \in le : li[j].lineno <= li[i].lineno]

\* C5: findLineInfo returns the anchor with the greatest lineNumber <= target,
\* the anchor equal to the target included, and none exactly when the slice
\* is empty or the target is below the smallest anchor.
C5_FindGreatestLE ==
    findIn.called => findOut = ExpectedAnchor(findIn.linenum, findIn.li)

\* C6: capacity <= 0 builds like capacity = 1: no crash and, for a file with
\* at least one line, exactly the anchor of the first line.
C6_NonPositiveCapacity ==
    (Built /\ cacheSize <= 0 /\ NumLines(file) >= 1)
    => (/\ loc.status = "ok"
        /\ loc.cache = <<[lineno |-> 0, offset |-> 0]>>)

\* C7: for every command line read the handler writes exactly one reply when
\* it is a GET or an unrecognised command and none when it is QUIT or
\* SHUTDOWN; a GET whose argument is not an integer gets the 'invalid line
\* number' line and nothing else.
C7_OneReplyPerCommand ==
    \A c \in Conns :
        lastCmd[c] # <<>> =>
            LET parts == Split(TrimSpace(lastCmd[c][1]))
            IN  /\ Len(wrote[c]) =
                       IF parts \in {<<quitCmd>>, <<shutdownCmd>>} THEN 0 ELSE 1
                /\ (/\ Len(parts) = 2
                    /\ parts[1] = getCmd
                    /\ ParseInt(parts[2]).err # Nil)
                   => wrote[c] = <<[kind |-> "invalid line number", val |-> 0,
                                    text |-> parts[2]]>>

\* the goroutines that have called shutdown(), and those still inside it
SdSteps == {"sd_check", "sd_lock", "sd_close"}
Triggered == {p \in Procs : pc[p] \in SdSteps \/ outcome[p] # "none"}
InShutdown == {p \in Procs : pc[p] \in SdSteps}

\* C8: with two or more shutdown triggers, in any interleaving, the listener
\* is closed at most once while the server is in its accept loop.
C8_ListenerClosedOnce ==
    (Cardinality(Triggered) >= 2 /\ pcMain = "accept") => closeCalls <= 1

\* C9: a shutdown() call that reads the flag after an earlier call has
\* returned returns at once: flag, listener and mutex stay as they are and
\* no Close is made.
C9_SecondShutdownNoOp ==
    [][\A p \in Procs :
          (/\ pc[p] = "sd_check"
           /\ pc'[p] # "sd_check"
           /\ \E q \in Procs : outcome[q] # "none")
          => (/\ pc'[p] = Ret(p)
              /\ outcome'[p] = "noop"
              /\ UNCHANGED <<isShutdown, listener, closeCalls, mu>>)]_vars

\* one call closed the listener, a second one returned without doing
\* anything, and the listener was closed once
C9_Witness ==
    \E p, q \in Procs :
        /\ outcome[p] = "ran"
        /\ outcome[q] = "noop"
        /\ InShutdown = {}
        /\ isShutdown
        /\ listener = "closed"
        /\ closeCalls = 1

\* C10: once a shutdown trigger has returned, whenever it came, the server
\* does not sit in its accept loop with the listener open: the listener is
\* closed, and no later SHUTDOWN is a no-op on a server that still accepts.
C10_TriggerClosesListener ==
    (/\ pcMain = "accept"
     /\ \E p \in Procs : outcome[p] # "none"
     /\ InShutdown = {})
    => listener = "closed"

\* the parts of the command line a connection read last
LastParts(c) ==
    IF lastCmd[c] = <<>> THEN <<>> ELSE Split(TrimSpace(lastCmd[c][1]))
\* a valid GET served on a running server
GetTwo == <<"G", "E", "T", " ", "2", " ">>

\* C11: when only SHUTDOWN commands trigger the shutdown (so it starts with
\* the listener open), a shutdown() call that has run leaves the listener
\* closed; a closed listener stays closed and no handler is started on it;
\* the accept loop that sees it closed returns nil; an Accept failure with no
\* shutdown triggered is returned as the error.
C11_ShutdownStopsAccepting ==
    /\ []((/\ outcome[Sig] # "ran"
           /\ \E c \in Conns : outcome[c] # "none"
           /\ InShutdown = {})
          => listener = "closed")
    /\ [][/\ listener = "closed"
             => (/\ listener' = "closed"
                 /\ \A c \in Conns : pc[c] = "free" => pc'[c] = "free")
          /\ (pcMain = "accept" /\ pcMain' # "accept" /\ listener = "closed")
             => (pcMain' = "defer" /\ mainErr' = Nil)
          /\ (pcMain = "accept" /\ pcMain' # "accept" /\ Triggered = {})
             => (pcMain' = "defer" /\ mainErr' = "accept")]_vars

\* a SHUTDOWN command closed the listener with a connection still unused,
\* and the accept loop returned nil
C11_Witness ==
    /\ pc[Sig] = "wait"
    /\ \E c \in Conns : outcome[c] = "ran" /\ LastParts(c) = <<shutdownCmd>>
    /\ \E c \in Conns : pc[c] = "free"
    /\ listener = "closed"
    /\ pcMain = "returned"
    /\ mainErr = Nil

C13_ConcurrentLookups ==
    /\ [](\A g \in Lookers :
            (lk[g].pc = "done" /\ lk[g].arg \in 1..NumLines(file))
            => (lk[g].err = Nil /\ lk[g].res = Record(file, lk[g].arg)))
    /\ [][\A g, h \in Lookers :
            (g # h /\ lk'[g] # lk[g]) => lk'[h] = lk[h]]_vars

\* two calls for different lines have both returned after scanning forward
\* from an anchor
C13_Witness ==
    \E g, h \in Lookers :
        /\ lk[g].pc = "done" /\ lk[h].pc = "done"
        /\ lk[g].arg = 2 /\ lk[h].arg = 4
        /\ lk[g].begin = 0 /\ lk[h].begin = 2
        /\ lk[g].res = Record(file, 2) /\ lk[h].res = Record(file, 4)

\* a command line that draws an error reply: not QUIT or SHUTDOWN, and not
\* a GET of a line the file has
ErrorLine(raw) ==
    LET parts == Split(TrimSpace(raw))
    IN  IF Len(parts) = 1 /\ parts[1] \in {quitCmd, shutdownCmd} THEN FALSE
        ELSE IF Len(parts) = 2 /\ parts[1] = getCmd
        THEN \/ ParseInt(parts[2]).err # Nil
             \/ ParseInt(parts[2]).val \notin 1..NumLines(file)
        ELSE TRUE
ErrorKinds == {"invalid request", "invalid line number", "lookup failed"}
LineTwo == <<[kind |-> "line", val |-> 2, text |-> Record(file, 2)]>>

\* C14: a connection that reads an unrecognised command, a GET with a
\* non-integer argument or a GET out of range writes error replies to itself
\* only and stays in its loop, the listener and the accept loop are left as
\* they were, and the valid GET it reads next is answered with the line.
C14_ErrorKeepsConnection ==
    [][\A c \in Conns :
        lastCmd'[c] # lastCmd[c] =>
          /\ ErrorLine(lastCmd'[c][1]) =>
                /\ pc'[c] = "scan"
                /\ wrote'[c] # <<>>
                /\ \A i \in 1..Len(wrote'[c]) : wrote'[c][i].kind \in ErrorKinds
                /\ \A d \in Conns \ {c} : wrote'[d] = wrote[d]
                /\ UNCHANGED <<listener, closeCalls, isShutdown, pcMain,
                               mainErr>>
          /\ (lastCmd[c] # <<>> /\ ErrorLine(lastCmd[c][1])
                 /\ lastCmd'[c] = <<GetTwo>>) =>
                (pc'[c] = "scan" /\ wrote'[c] = LineTwo)]_vars

\* each kind of error has been answered on some connection that is still in
\* its loop, while the server accepts
C14_Witness ==
    /\ listener = "open" /\ pcMain = "accept"
    /\ \E c, d \in Conns :
        /\ c # d
        /\ pc[c] = "scan" /\ lastCmd[c] = <<<<"F", "O", "O">>>>
        /\ wrote[c][1].kind = "invalid request"
        /\ pc[d] = "scan" /\ lastCmd[d] = <<<<"G", "E", "T", " ", "3">>>>
        /\ wrote[d][1].kind = "lookup failed"

\* C15: a connection whose last line was QUIT or SHUTDOWN, blanks around it
\* trimmed, wrote nothing for it and reads no further line; after QUIT it is
\* closed and the server state is as before; after SHUTDOWN it is inside
\* shutdown() or past it, and closed only once its shutdown() call returned.
C15_QuitShutdownEndLoop ==
    /\ [](\A c \in Conns : lastCmd[c] # <<>> =>
            LET parts == LastParts(c)
            IN  /\ parts = <<quitCmd>> =>
                      /\ pc[c] = "closed"
                      /\ wrote[c] = <<>>
                      /\ outcome[c] = "none"
                /\ parts = <<shutdownCmd>> =>
                      /\ pc[c] \in SdSteps \cup {"sd_ret", "closed"}
                      /\ wrote[c] = <<>>
                      /\ pc[c] \in {"sd_ret", "closed"} => outcome[c] # "none")
    /\ [](\A c \in Conns : (pc[c] = "scan" /\ lastCmd[c] = <<>>) =>
            /\ handleLine(loc, file, <<" ">> \o quitCmd \o <<" ">>)
                 = [wrote |-> <<>>, next |-> "closed"]
            /\ handleLine(loc, file, <<" ">> \o shutdownCmd \o <<" ">>)
                 = [wrote |-> <<>>, next |-> "sd_check"])
    /\ [][\A c \in Conns :
            /\ (lastCmd'[c] # lastCmd[c]
                  /\ TrimSpace(lastCmd'[c][1]) = quitCmd) =>
                  UNCHANGED <<listener, closeCalls, isShutdown, mu, pcMain,
                              mainErr, outcome>>
            /\ pc[c] \notin {"free", "scan"} =>
                  (lastCmd'[c] = lastCmd[c] /\ wrote'[c] = wrote[c])]_vars

\* one connection closed on QUIT, another closed after its SHUTDOWN ran
\* shutdown()
C15_Witness ==
    \E c, d \in Conns :
        /\ LastParts(c) = <<quitCmd>> /\ pc[c] = "closed"
        /\ LastParts(d) = <<shutdownCmd>> /\ pc[d] = "closed"
        /\ outcome[d] = "ran"
        /\ listener = "closed"

\* C16: no step after construction changes the cache (anchors, totLines) or
\* the file, and the step in which a connection reads a line, an erroneous
\* one included, changes nothing of any other connection.
C16_CacheAndOthersUntouched ==
    [][/\ loc' = loc
       /\ file' = file
       /\ \A c \in Conns :
            (lastCmd'[c] # lastCmd[c] \/ wrote'[c] # wrote[c]) =>
              \A d \in Conns \ {c} :
                 /\ pc'[d] = pc[d]
                 /\ lastCmd'[d] = lastCmd[d]
                 /\ wrote'[d] = wrote[d]
                 /\ outcome'[d] = outcome[d]]_vars

\* after a failed lookup on one connection another connection got its line
\* by a forward scan, and the cache is the one that was built
C16_Witness ==
    /\ loc.cache = <<[lineno |-> 0, offset |-> 0]>>
    /\ loc.totLines = 2
    /\ \E c, d \in Conns :
        /\ lastCmd[c] = <<<<"G", "E", "T", " ", "3">>>>
        /\ wrote[c][1].kind = "lookup failed"
        /\ lastCmd[d] = <<GetTwo>>
        /\ wrote[d] = LineTwo

\* the line numbers anchored in a cache
AnchoredLines(cache) == {cache[i].lineno : i \in 1..Len(cache)}
\* the lines the uniform spacing anchors, and the slots it leaves free
UniformLines(lines, cap) ==
    {ln \in 0..(lines - 1) : ln % SkipOf(lines, cap) = 0}
Deficit(lines, cap) == cap - Cardinality(UniformLines(lines, cap))

\* C17: when totLines > capacity and the uniform set leaves a deficit, the
\* built cache holds exactly deficit extra anchors, none a multiple of skip,
\* and every line of the file that is not a multiple of skip is an anchor of
\* some cache newLineOffsetCache can build for this file and capacity.
C17_ExtrasFromWholeComplement ==
    (/\ loc.status = "ok"
     /\ cacheSize > 0
     /\ loc.totLines > cacheSize
     /\ Deficit(loc.totLines, cacheSize) > 0)
    => /\ Cardinality(AnchoredLines(loc.cache)
                      \ UniformLines(loc.totLines, cacheSize))
          = Deficit(loc.totLines, cacheSize)
       /\ \A k \in 0..(loc.totLines - 1) :
            k % SkipOf(loc.totLines, cacheSize) # 0
            => \E r \in buildCache(file, loc.totLines, cacheSize) :
                   k \in AnchoredLines(r.cache)

\* the spacing of the uniform anchors: 1 when every line is anchored
SkipFor(lines, cap) == IF lines > cap THEN SkipOf(lines, cap) ELSE 1
\* lines the last Lookup read and threw away before its target
Discarded == lookupRes.arg - 1 - lookupRes.begin

\* C18: a Lookup of a valid line reads and discards at most skip - 1 lines
\* before the target, skip = ceil(totLines / capacity) when totLines >
\* capacity and 1 otherwise; with totLines <= capacity it discards none.
C18_ScanBound ==
    (/\ loc.status = "ok"
     /\ cacheSize > 0
     /\ lookupRes.called
     /\ lookupRes.arg \in 1..loc.totLines)
    => /\ lookupRes.err = Nil
       /\ Discarded \in 0..(SkipFor(loc.totLines, cacheSize) - 1)
       /\ loc.totLines <= cacheSize => Discarded = 0

\* a lookup discarded skip - 1 >= 1 lines
C18_Witness ==
    /\ loc.status = "ok"
    /\ loc.totLines > cacheSize
    /\ cacheSize > 0
    /\ lookupRes.called
    /\ lookupRes.err = Nil
    /\ Discarded = SkipOf(loc.totLines, cacheSize) - 1
    /\ Discarded >= 1

\* C19: totLines is the number of newline bytes of the file, so text after
\* the last newline is no line, and Lookup of the line after the last
\* terminated record fails as out of range.
C19_UnterminatedTailNotCounted ==
    /\ Built => loc.totLines = NumLines(file)
    /\ (loc.status = "ok" /\ lookupRes.called
          /\ lookupRes.arg = NumLines(file) + 1)
       => (lookupRes.err = "invalid" /\ lookupRes.str = <<>>)

\* a file of k >= 1 records and an unterminated tail, and Lookup(k + 1)
\* has failed
C19_Witness ==
    /\ loc.status = "ok"
    /\ file # <<>>
    /\ file[Len(file)] # NL
    /\ NumLines(file) >= 1
    /\ loc.totLines = NumLines(file)
    /\ lookupRes.called
    /\ lookupRes.arg = NumLines(file) + 1
    /\ lookupRes.err = "invalid"

\* C20: a cache built with capacity > 0 over a file of at least one line
\* starts with the anchor (line 0, offset 0): no valid target is below the
\* smallest anchor, a valid target for which findLineInfo returns nil is
\* served by a scan from line 0, and every scan starts at or before its
\* target.
C20_FirstAnchorIsLineZero ==
    (loc.status = "ok" /\ cacheSize > 0 /\ loc.totLines >= 1)
    => /\ Len(loc.cache) >= 1
       /\ loc.cache[1] = [lineno |-> 0, offset |-> 0]
       /\ \A t \in 0..(loc.totLines - 1) :
            /\ loc.cache[1].lineno <= t
            /\ findLineInfo(t, loc.cache) = NilInfo
               => (/\ Lookup(loc, file, t + 1).begin = 0
                   /\ Lookup(loc, file, t + 1).err = Nil)
       /\ (lookupRes.called /\ lookupRes.err = Nil)
          => (lookupRes.begin >= 0 /\ lookupRes.begin <= lookupRes.arg - 1)

\* findLineInfo returned nil for the first line of a cache of several
\* anchors and Lookup served it from line 0
C20_Witness ==
    /\ loc.status = "ok"
    /\ Len(loc.cache) >= 2
    /\ loc.cache[1] = [lineno |-> 0, offset |-> 0]
    /\ lookupRes.called
    /\ lookupRes.arg = 1
    /\ findLineInfo(0, loc.cache) = NilInfo
    /\ lookupRes.begin = 0
    /\ lookupRes.err = Nil
    /\ lookupRes.str = Record(file, 1)

\* C21: for every built cache and every valid target findLineInfo returns
\* nil or an anchor at or below the target, so no Lookup ends in the
\* 'unexpected search error' branch.
C21_UnexpectedSearchErrorUnreachable ==
    loc.status = "ok"
    => /\ \A t \in 0..(loc.totLines - 1) :
            LET li == findLineInfo(t, loc.cache)
            IN  li = NilInfo \/ li.lineno <= t
       /\ lookupRes.called => lookupRes.err # "unexpected"

\* a Lookup of a valid line for which findLineInfo returned an anchor
\* strictly below the target, in a cache of several anchors
C21_Witness ==
    /\ loc.status = "ok"
    /\ Len(loc.cache) >= 2
    /\ lookupRes.called
    /\ lookupRes.arg \in 2..loc.totLines
    /\ lookupRes.err = Nil
    /\ findLineInfo(lookupRes.arg - 1, loc.cache) # NilInfo
    /\ findLineInfo(lookupRes.arg - 1, loc.cache).lineno < lookupRes.arg - 1
    /\ lookupRes.begin = findLineInfo(lookupRes.arg - 1, loc.cache).lineno

\* C22: for totLines >= 0 and capacity > 0 getUnusedSlotCount is not
\* negative; when totLines > capacity it is capacity minus the number of
\* multiples of skip = ceil(totLines / capacity) below totLines, that number
\* is at most capacity, and the line numbers below capacity that are not
\* multiples of skip are at least as many as the free slots.
C22_UnusedSlotCount ==
    slots.called
    => /\ slots.free >= 0
       /\ slots.lineCnt > slots.cacheSize
          => LET skip == SkipOf(slots.lineCnt, slots.cacheSize)
                 uniform == UniformLines(slots.lineCnt, slots.cacheSize)
                 candidates == {v \in 0..(slots.cacheSize - 1) : v % skip # 0}
             IN  /\ slots.free = slots.cacheSize - Cardinality(uniform)
                 /\ Cardinality(uniform) <= slots.cacheSize
                 /\ Cardinality(candidates) >= slots.free

\* more lines than slots, and the uniform spacing leaves several slots free
C22_Witness ==
    /\ slots.called
    /\ slots.lineCnt > slots.cacheSize
    /\ slots.lineCnt % slots.cacheSize # 0
    /\ slots.free >= 2
    /\ slots.free = Deficit(slots.lineCnt, slots.cacheSize)

====
